---- MODULE Spec2Model ----
(***************************************************************************)
(* Model of python/perspective/setup.py: the CMake build command PSPBuild  *)
(* (run_cmake, build_extension_cmake) and the sdist command PSPCheckSDist  *)
(* (run, run_check).                                                       *)
(*                                                                         *)
(* A Python str is a sequence of atoms.  An atom is a TLA+ string holding  *)
(* a piece of text without any backslash, or the one-character atom "\\".  *)
(* Path separators are always atoms of their own ("\\" or "/").            *)
(***************************************************************************)
EXTENDS Integers, Sequences, FiniteSets, TLC

(* ---------------------------------------------------------------- bounds *)

MaxCpu == 3

MaxExt == 2

MaxVer == 4

(* ------------------------------------------------------- string helpers *)

BS == "\\"

FS == "/"

\* str.replace(old, new), for one-character old and new
Replace(s, old, new) == [i \in 1..Len(s) |-> IF s[i] = old THEN new ELSE s[i]]

\* the "\\" in s test
HasBackslash(s) == \E i \in 1..Len(s) : s[i] = BS

\* os.sep of platform.system()'s os.path
Sep(plat) == IF plat = "Windows" THEN BS ELSE FS

\* os.path.join(a, b): b is relative and a does not end in a separator
Join(plat, a, b) == a \o <<Sep(plat)>> \o b

\* os.path.abspath of an absolute path without "." or "..": ntpath.normpath
\* turns every altsep "/" into "\\"; posixpath leaves backslashes alone
Abspath(plat, p) == IF plat = "Windows" THEN Replace(p, FS, BS) ELSE p

(* ----------------------------------------------------------- input sets *)

Platforms == {"Windows", "Linux"}

\* raw absolute paths the host can hand over
RawPaths(plat) ==
    IF plat = "Windows"
    THEN { <<"C:", BS, "a">>, <<"C:", FS, "a">> }
    ELSE { <<FS, "a">>, <<FS, "a", BS, "b">> }

DefaultPath(plat) == IF plat = "Windows" THEN <<"C:", BS, "a">> ELSE <<FS, "a">>

\* what dm.get_build_version() may hand back: a str as the msvc table is
\* keyed, or a number as distutils computes it (a number equals no str key)
BuildVersions ==
    {[kind |-> "str", text |-> t] : t \in {"12", "14", "14.1", "9"}}
        \cup {[kind |-> "number", text |-> "14.1"]}

\* values of the PSP_GENERATOR environment variable
GeneratorOverrides == { <<"Ninja">>, <<"C:", BS, "gen">> }

\* values of the DOCKER environment variable
DockerValues == { <<>>, <<"1">> }

\* the output an external tool run emits on its stdout/stderr
Outputs == {"log-a", "log-b"}

ExitCodes == {0, 1}

\* "{}.{}".format(sys.version_info.major, sys.version_info.minor)
PYTHON_VERSION == <<"3.8">>

(* ------------------------------------------ build_extension_cmake: args *)

\* os.environ.get(key, default); environ is a function on the set variables
EnvGet(environ, key, default) ==
    IF key \in DOMAIN environ THEN environ[key] ELSE default

\* the replace call left out
NormalizeUnreplaced(s) == s

\* .replace("\\", "/") as applied to the -D parameters
Normalize(s) == Replace(s, BS, FS)

\* cfg = "Debug" if self.debug else "Release"
Cfg(debug) == IF debug THEN "Debug" ELSE "Release"

\* cfg.upper()
Upper(cfg) == IF cfg = "Debug" THEN "DEBUG" ELSE "RELEASE"

\* the cmake_args list literal
BaseCmakeArgs(plat, cfg, extdir, sourcedir, executable, prefix) ==
    << <<"-DCMAKE_LIBRARY_OUTPUT_DIRECTORY=">>
         \o Normalize(Abspath(plat,
              Join(plat, Join(plat, extdir, <<"perspective">>), <<"table">>))),
       <<"-DCMAKE_BUILD_TYPE=", cfg>>,
       <<"-DPSP_CPP_BUILD=1">>,
       <<"-DPSP_WASM_BUILD=0">>,
       <<"-DPSP_PYTHON_BUILD=1">>,
       <<"-DPSP_PYTHON_VERSION=">> \o PYTHON_VERSION,
       <<"-DPython_ADDITIONAL_VERSIONS=">> \o PYTHON_VERSION,
       <<"-DPython_FIND_VERSION=">> \o PYTHON_VERSION,
       Normalize(<<"-DPython_EXECUTABLE=">> \o executable),
       Normalize(<<"-DPython_ROOT_DIR=">> \o prefix),
       Normalize(<<"-DPython_ROOT=">> \o prefix),
       Normalize(<<"-DPSP_CMAKE_MODULE_PATH=">>
                   \o Join(plat, sourcedir, <<"cmake">>)),
       Normalize(<<"-DPSP_CPP_SRC=">> \o sourcedir),
       <<"-DPSP_PYTHON_SRC=">>
         \o Normalize(Join(plat, Join(plat, sourcedir, <<"..">>),
                           <<"perspective">>)) >>

\* the table lookup with the 2015 generator as its default
MsvcWrongDefault(buildVersion) ==
    CASE buildVersion = [kind |-> "str", text |-> "12"] -> <<"Visual Studio 12 2013">>
      [] buildVersion = [kind |-> "str", text |-> "14"] -> <<"Visual Studio 14 2015">>
      [] buildVersion = [kind |-> "str", text |-> "14.1"] -> <<"Visual Studio 15 2017">>
      [] OTHER -> <<"Visual Studio 14 2015">>

\* the msvc table lookup with its default
Msvc(buildVersion) ==
    CASE buildVersion = [kind |-> "str", text |-> "12"] -> <<"Visual Studio 12 2013">>
      [] buildVersion = [kind |-> "str", text |-> "14"] -> <<"Visual Studio 14 2015">>
      [] buildVersion = [kind |-> "str", text |-> "14.1"] -> <<"Visual Studio 15 2017">>
      [] OTHER -> <<"Visual Studio 15 2017">>

\* os.environ.get("PSP_GENERATOR", msvc)
Generator(environ, msvc) == EnvGet(environ, "PSP_GENERATOR", msvc)

\* sys.maxsize > 2 ** 32, with sys.maxsize = 2 ** (bits - 1) - 1
Is64(bits) == bits - 1 > 32

\* the architecture flag appended to cmake_args on Windows
ArchArgs(bits) == IF Is64(bits) THEN << <<"-A">>, <<"x64">> >> ELSE << >>

\* cmake_args after the platform branch
CmakeArgs(plat, cfg, extdir, sourcedir, executable, prefix, environ, buildVersion, bits) ==
    IF plat = "Windows"
    THEN BaseCmakeArgs(plat, cfg, extdir, sourcedir, executable, prefix)
           \o << Normalize(<<"-DCMAKE_LIBRARY_OUTPUT_DIRECTORY_", Upper(cfg),
                             "=">> \o extdir),
                 <<"-G">>,
                 Generator(environ, Msvc(buildVersion)) >>
           \o ArchArgs(bits)
    ELSE BaseCmakeArgs(plat, cfg, extdir, sourcedir, executable, prefix)
           \o << <<"-DCMAKE_BUILD_TYPE=", cfg>> >>

\* the flag with `"DOCKER" in os.environ` as the test
JobFlagIfPresent(plat, environ, cpu) ==
    IF plat = "Windows"
    THEN <<"/m:", ToString(cpu)>>
    ELSE IF "DOCKER" \in DOMAIN environ
         THEN <<"-j", "2">>
         ELSE <<"-j", ToString(cpu)>>

\* the parallelism flag of the build step
JobFlag(plat, environ, cpu) ==
    IF plat = "Windows"
    THEN <<"/m:", ToString(cpu)>>
    ELSE IF EnvGet(environ, "DOCKER", <<>>) # <<>>
         THEN <<"-j", "2">>
         ELSE <<"-j", ToString(cpu)>>

\* build_args after the platform branch
BuildArgs(plat, cfg, environ, cpu) ==
    IF plat = "Windows"
    THEN << <<"--config">>, <<cfg>>, <<"--">>, JobFlag(plat, environ, cpu),
            <<"/p:Configuration=", cfg>> >>
    ELSE << <<"--config">>, <<cfg>>, <<"--">>, JobFlag(plat, environ, cpu) >>

\* env = os.environ.copy() with the two variables set
ChildEnv(environ) ==
    [k \in DOMAIN environ \cup {"PSP_ENABLE_PYTHON", "OSX_DEPLOYMENT_TARGET"} |->
        CASE k = "PSP_ENABLE_PYTHON" -> <<"1">>
          [] k = "OSX_DEPLOYMENT_TARGET" -> <<"10.9">>
          [] OTHER -> environ[k]]

(* ------------------------------------------------------------ the state *)

VARIABLES
    host,        \* platform.system(), sys.*, CPU_COUNT, which(), msvc toolset
    cmake,       \* the external tool: installed?, `--version` exit and banner
    environ,     \* os.environ
    self,        \* the PSPBuild command: debug, extensions, cmake_cmd, dirs
    build_temp,  \* os.path.exists(self.build_temp)
    pc,          \* where the build command is
    ext,         \* index of the extension being built
    calls,       \* the configure/build processes spawned so far
    exits,       \* their exit statuses, in the order of calls
    console,     \* the stdout stream the child processes inherit
    raised,      \* the exception that left PSPBuild.run, if any
    detections,  \* number of dm.get_build_version() calls
    made,        \* number of os.makedirs(self.build_temp) calls
    here,        \* directory of setup.py
    fs,          \* the sdist prerequisites on disk: absent, file or dir
    sdist_pc,    \* where the sdist command is
    checked,     \* paths handed to os.path.exists by run_check
    sdist_raised,\* the exception that left PSPCheckSDist.run, if any
    packaged     \* sdist.run (the packaging itself) was started

buildVars == <<host, cmake, environ, self, build_temp, pc, ext, calls, exits,
               console, raised, detections, made>>

sdistVars == <<here, fs, sdist_pc, checked, sdist_raised, packaged>>

vars == <<host, cmake, environ, self, build_temp, pc, ext, calls, exits,
          console, raised, detections, made, here, fs, sdist_pc, checked,
          sdist_raised, packaged>>

(* --------------------------------------------------------------- errors *)

NoError == [type |-> "NoError"]

\* RuntimeError("CMake must be installed to build the following extensions: ...")
ToolNotFound(n) ==
    [type |-> "RuntimeError",
     msg |-> "CMake must be installed to build the following extensions: ",
     extensions |-> n]

\* RuntimeError("CMake >= 3.1.0 is required on Windows")
UnsupportedToolVersion ==
    [type |-> "RuntimeError", msg |-> "CMake >= 3.1.0 is required on Windows"]

\* subprocess.CalledProcessError(returncode, cmd, output); output is the
\* sequence of captured outputs: empty when the call captured none (None)
CalledProcessError(rc, cmd, output) ==
    [type |-> "CalledProcessError", returncode |-> rc, cmd |-> cmd,
     output |-> output]

\* [None, "--version"] handed to subprocess.check_output
NoneArgument == [type |-> "TypeError"]

\* re.search(...) returned None and .group(1) was applied to it
NoMatch == [type |-> "AttributeError"]

\* a missing cwd handed to subprocess.check_call
NoSuchDirectory == [type |-> "OSError"]

(* ------------------------------------------------------------ run_cmake *)

\* dot-separated numeric components: what LooseVersion makes of a version
Versions ==
    UNION {[1..n -> 0..MaxVer] : n \in 2..3}

\* LooseVersion("3.1.0").version
MinVersion == <<3, 1, 0>>

\* the comparison with <= for <
LooseLessOrEqual(a, b) ==
    \/ a = b
    \/ \E i \in 1..(Len(b)) :
          /\ \A j \in 1..(i - 1) : j <= Len(a) /\ a[j] = b[j]
          /\ \/ i <= Len(a) /\ a[i] < b[i]
             \/ i = Len(a) + 1

\* LooseVersion.__lt__: comparison of the component lists
LooseLess(a, b) ==
    \E i \in 1..(Len(b)) :
        /\ \A j \in 1..(i - 1) : j <= Len(a) /\ a[j] = b[j]
        /\ \/ i <= Len(a) /\ a[i] < b[i]
           \/ i = Len(a) + 1

\* which("cmake"): shutil.which (or its backport) gives None for a missing
\* tool, the fallback `def which(x): return x` gives the name back
Which(whichImpl, installed) ==
    IF whichImpl = "fallback" THEN "cmake"
    ELSE IF installed THEN "PATH/cmake" ELSE "None"

\* the exception leaving run_cmake before the extension loop, or NoError
VersionProbe(h, tool, nExt) ==
    LET cmd == Which(h.whichImpl, tool.installed) IN
    CASE cmd = "None" -> NoneArgument
      [] cmd # "None" /\ ~tool.installed -> ToolNotFound(nExt)
      [] cmd # "None" /\ tool.installed /\ tool.versionExit # 0 ->
            CalledProcessError(tool.versionExit, <<cmd, "--version">>,
                               <<tool.banner>>)
      [] OTHER ->
            IF h.platform = "Windows"
            THEN IF ~tool.banner.match THEN NoMatch
                 ELSE IF LooseLess(tool.banner.version, MinVersion)
                      THEN UnsupportedToolVersion
                      ELSE NoError
            ELSE NoError

\* PSPBuild.run / run_cmake up to the first build_extension_cmake call
run_cmake ==
    /\ pc = "run"
    /\ self' = [self EXCEPT !.cmake_cmd = Which(host.whichImpl, cmake.installed)]
    /\ raised' = VersionProbe(host, cmake, self.nExt)
    /\ pc' = IF raised'.type = "NoError" THEN "NotStarted" ELSE "Failed"
    /\ UNCHANGED <<host, cmake, environ, build_temp, ext, calls, exits,
                   console, detections, made>>
    /\ UNCHANGED sdistVars

(* ------------------------------------------------ build_extension_cmake *)

\* the directory test without the os.makedirs call
EnsureDirNotCreated(exists) == exists

\* subprocess.call for subprocess.check_call: the exit status is ignored
CheckCallIgnored(rc) == TRUE

\* the child's output sent to DEVNULL
EmitNowhere(stream, out) == stream

\* os.path.exists(self.build_temp) after
\* `if not os.path.exists(self.build_temp): os.makedirs(self.build_temp)`
EnsureDir(exists) == IF ~exists THEN TRUE ELSE exists

\* subprocess.check_call: returns on exit status zero, raises otherwise
CheckCall(rc) == rc = 0

\* the child writes stdout, and stderr=subprocess.STDOUT, to the stream it
\* inherits from the parent; nothing is captured
Emit(stream, out) == Append(stream, out)

\* what check_call raises: CalledProcessError(retcode, cmd), output None
CheckCallError(rc, cmd) == CalledProcessError(rc, cmd, <<>>)

\* extdir = os.path.abspath(os.path.dirname(self.get_ext_fullpath(ext.name)))
Extdir == Abspath(host.platform, self.extpath)

\* [self.cmake_cmd, os.path.abspath(ext.sourcedir)] + cmake_args
ConfigureCall ==
    [ext |-> ext, step |-> "configure", exe |-> self.cmake_cmd,
     args |-> << Abspath(host.platform, self.sourcedir) >>
               \o CmakeArgs(host.platform, Cfg(self.debug), Extdir,
                            self.sourcedir, host.executable, host.prefix,
                            environ, host.buildVersion, host.bits),
     cwd |-> "build_temp", env |-> ChildEnv(environ), stderr |-> "STDOUT"]

\* [self.cmake_cmd, "--build", "."] + build_args
BuildCall ==
    [ext |-> ext, step |-> "build", exe |-> self.cmake_cmd,
     args |-> << <<"--build">>, <<".">> >>
               \o BuildArgs(host.platform, Cfg(self.debug), environ, host.cpu),
     cwd |-> "build_temp", env |-> ChildEnv(environ), stderr |-> "STDOUT"]

\* build_extension_cmake from its entry to the spawn of the configure step
StartConfigure ==
    /\ pc = "NotStarted"
    /\ detections' = IF host.platform = "Windows"
                     THEN detections + 1 ELSE detections
    /\ build_temp' = EnsureDir(build_temp)
    /\ made' = IF build_temp' # build_temp THEN made + 1 ELSE made
    /\ IF build_temp'
       THEN /\ calls' = Append(calls, ConfigureCall)
            /\ pc' = "Configuring"
            /\ raised' = raised
       ELSE /\ calls' = calls
            /\ pc' = "Failed"
            /\ raised' = NoSuchDirectory
    /\ UNCHANGED <<host, cmake, environ, self, ext, exits, console>>
    /\ UNCHANGED sdistVars

\* the configure step exits; check_call returns or raises; on return the
\* build step is spawned
ConfigureExit ==
    /\ pc = "Configuring"
    /\ \E rc \in ExitCodes, out \in Outputs :
        /\ exits' = Append(exits, [rc |-> rc, out |-> out])
        /\ console' = Emit(console, out)
        /\ IF CheckCall(rc)
           THEN /\ calls' = Append(calls, BuildCall)
                /\ pc' = "Building"
                /\ raised' = raised
           ELSE /\ calls' = calls
                /\ pc' = "Failed"
                /\ raised' = CheckCallError(rc, calls[Len(calls)])
    /\ UNCHANGED <<host, cmake, environ, self, build_temp, ext, detections,
                   made>>
    /\ UNCHANGED sdistVars

\* the build step exits; check_call returns or raises; on return print()
\* and the loop of run_cmake goes to the next extension
BuildExit ==
    /\ pc = "Building"
    /\ \E rc \in ExitCodes, out \in Outputs :
        /\ exits' = Append(exits, [rc |-> rc, out |-> out])
        /\ IF CheckCall(rc)
           THEN /\ console' = Append(Emit(console, out), "\n")
                /\ raised' = raised
                /\ IF ext < self.nExt
                   THEN ext' = ext + 1 /\ pc' = "NotStarted"
                   ELSE ext' = ext /\ pc' = "Done"
           ELSE /\ console' = Emit(console, out)
                /\ raised' = CheckCallError(rc, calls[Len(calls)])
                /\ ext' = ext
                /\ pc' = "Failed"
    /\ UNCHANGED <<host, cmake, environ, self, build_temp, calls, detections,
                   made>>
    /\ UNCHANGED sdistVars

(* -------------------------------------------------------- PSPCheckSDist *)

Kinds == {"absent", "file", "dir"}

\* the files of the first loop of run_check, under here/dist
NativeFiles ==
    << [key |-> "dist/CMakeLists.txt", file |-> <<"CMakeLists.txt">>],
       [key |-> "dist/cmake", file |-> <<"cmake">>],
       [key |-> "dist/src", file |-> <<"src">>] >>

\* the files of the second loop of run_check, under here/perspective
ScriptFiles ==
    << [key |-> "perspective/labextension/package.json",
        file |-> <<"labextension", FS, "package.json">>],
       [key |-> "perspective/nbextension/index.js",
        file |-> <<"nbextension", FS, "index.js">>] >>

ReqKeys ==
    {NativeFiles[i].key : i \in 1..Len(NativeFiles)}
        \cup {ScriptFiles[i].key : i \in 1..Len(ScriptFiles)}

\* the remedy texts (the source puts the yarn command in backquotes)
NativeRemedy ==
    "\nMust run yarn build_python before building sdist so cmake files are installed"

ScriptRemedy ==
    "\nMust run yarn build_js before building sdist so extension js files are installed"

\* Exception("Path is missing! {}\nMust run ...".format(path))
MissingArtifact(path, remedy) ==
    [type |-> "Exception", msg |-> <<"Path is missing! ">> \o path \o <<remedy>>]

\* os.path.isfile for os.path.exists
ExistsAsFile(kind) == kind = "file"

\* os.path.exists on a prerequisite of the given kind
Exists(kind) == kind # "absent"

\* os.path.abspath(os.path.join(here, base, file))
ReqPath(plat, anchor, base, file) ==
    Abspath(plat, Join(plat, Join(plat, anchor, base), file))

\* one `for file in (...)` loop of run_check: the paths tested so far and the
\* exception raised, if any
RECURSIVE CheckEach(_, _, _, _, _, _, _)
CheckEach(plat, anchor, disk, reqs, base, remedy, seen) ==
    IF reqs = << >>
    THEN [checked |-> seen, raised |-> NoError]
    ELSE LET path == ReqPath(plat, anchor, base, Head(reqs).file)
         IN  IF ~Exists(disk[Head(reqs).key])
             THEN [checked |-> Append(seen, path),
                   raised |-> MissingArtifact(path, remedy)]
             ELSE CheckEach(plat, anchor, disk, Tail(reqs), base, remedy,
                            Append(seen, path))

\* the two loops in the other order
RunCheckScriptFirst(plat, anchor, disk) ==
    LET first == CheckEach(plat, anchor, disk, ScriptFiles, <<"perspective">>,
                           ScriptRemedy, << >>)
    IN  IF first.raised.type # "NoError"
        THEN first
        ELSE CheckEach(plat, anchor, disk, NativeFiles, <<"dist">>,
                       NativeRemedy, first.checked)

\* PSPCheckSDist.run_check: the two loops in sequence
RunCheck(plat, anchor, disk) ==
    LET first == CheckEach(plat, anchor, disk, NativeFiles, <<"dist">>,
                           NativeRemedy, << >>)
    IN  IF first.raised.type # "NoError"
        THEN first
        ELSE CheckEach(plat, anchor, disk, ScriptFiles, <<"perspective">>,
                       ScriptRemedy, first.checked)

\* PSPCheckSDist.run, first statement: self.run_check()
run_check ==
    /\ sdist_pc = "run"
    /\ LET r == RunCheck(host.platform, here, fs)
       IN  /\ checked' = r.checked
           /\ sdist_raised' = r.raised
           /\ sdist_pc' = IF r.raised.type = "NoError" THEN "checked" ELSE "Failed"
    /\ UNCHANGED <<here, fs, packaged>>
    /\ UNCHANGED buildVars

\* PSPCheckSDist.run, second statement: super(PSPCheckSDist, self).run()
sdist_run ==
    /\ sdist_pc = "checked"
    /\ packaged' = TRUE
    /\ sdist_pc' = "Done"
    /\ UNCHANGED <<here, fs, checked, sdist_raised>>
    /\ UNCHANGED buildVars

(* ------------------------------------------------------- specifications *)

NoBanner == [match |-> FALSE, version |-> << >>]

Banners == {NoBanner} \cup {[match |-> TRUE, version |-> v] : v \in Versions}

NotInstalled == [installed |-> FALSE, versionExit |-> 1, banner |-> NoBanner]

Tools ==
    {NotInstalled}
        \cup {[installed |-> TRUE, versionExit |-> rc, banner |-> b] :
                 rc \in ExitCodes, b \in Banners}

GoodTool ==
    [installed |-> TRUE, versionExit |-> 0,
     banner |-> [match |-> TRUE, version |-> MinVersion]]

EnvNames == {"DOCKER", "PSP_GENERATOR"}

Environs ==
    UNION {{e \in [D -> DockerValues \cup GeneratorOverrides] :
               /\ "DOCKER" \in D => e["DOCKER"] \in DockerValues
               /\ "PSP_GENERATOR" \in D => e["PSP_GENERATOR"] \in GeneratorOverrides} :
           D \in SUBSET EnvNames}

NoEnviron == [k \in {} |-> << >>]

BuildStart ==
    /\ pc = "run"
    /\ ext = 1
    /\ calls = << >>
    /\ exits = << >>
    /\ console = << >>
    /\ raised = NoError
    /\ detections = 0
    /\ made = 0

BuildIdle ==
    /\ host \in {[platform |-> p, whichImpl |-> "shutil", bits |-> 64, cpu |-> 1,
                  executable |-> DefaultPath(p), prefix |-> DefaultPath(p),
                  buildVersion |-> [kind |-> "number", text |-> "14.1"]] : p \in Platforms}
    /\ cmake = GoodTool
    /\ environ = NoEnviron
    /\ self = [debug |-> FALSE, nExt |-> 1, cmake_cmd |-> "unset",
               extpath |-> DefaultPath(host.platform),
               sourcedir |-> Abspath(host.platform, DefaultPath(host.platform))]
    /\ build_temp = FALSE
    /\ pc = "idle"
    /\ ext = 1
    /\ calls = << >>
    /\ exits = << >>
    /\ console = << >>
    /\ raised = NoError
    /\ detections = 0
    /\ made = 0

SdistIdle ==
    /\ here = Abspath(host.platform, DefaultPath(host.platform))
    /\ fs = [k \in ReqKeys |-> "absent"]
    /\ sdist_pc = "idle"
    /\ checked = << >>
    /\ sdist_raised = NoError
    /\ packaged = FALSE

\* the build command over every tool, which() variant and extension count,
\* with the argument inputs held at one value per platform
Init ==
    /\ host \in {[platform |-> p, whichImpl |-> w, bits |-> 64, cpu |-> 1,
                  executable |-> DefaultPath(p), prefix |-> DefaultPath(p),
                  buildVersion |-> [kind |-> "number", text |-> "14.1"]] :
                 p \in Platforms, w \in {"shutil", "fallback"}}
    /\ cmake \in Tools
    /\ environ = NoEnviron
    /\ self \in {[debug |-> FALSE, nExt |-> n, cmake_cmd |-> "unset",
                  extpath |-> DefaultPath(host.platform),
                  sourcedir |-> Abspath(host.platform, DefaultPath(host.platform))] :
                 n \in 1..MaxExt}
    /\ build_temp \in BOOLEAN
    /\ BuildStart
    /\ SdistIdle

\* the build command over every argument input, with a usable tool
InitArgs ==
    /\ host \in {[platform |-> p, whichImpl |-> "shutil", bits |-> b, cpu |-> c,
                  executable |-> x, prefix |-> r, buildVersion |-> v] :
                 p \in Platforms, b \in {32, 64}, c \in 1..MaxCpu,
                 x \in RawPaths("Windows") \cup RawPaths("Linux"),
                 r \in RawPaths("Windows") \cup RawPaths("Linux"),
                 v \in BuildVersions}
    /\ host.executable \in RawPaths(host.platform)
    /\ host.prefix \in RawPaths(host.platform)
    /\ cmake = GoodTool
    /\ environ \in Environs
    /\ self \in {[debug |-> d, nExt |-> 1, cmake_cmd |-> "unset",
                  extpath |-> e,
                  sourcedir |-> Abspath(host.platform, s)] :
                 d \in BOOLEAN, e \in RawPaths(host.platform),
                 s \in RawPaths(host.platform)}
    /\ build_temp = FALSE
    /\ BuildStart
    /\ SdistIdle

\* the sdist command over every state of the prerequisites on disk
InitSdist ==
    /\ BuildIdle
    /\ here \in {Abspath(host.platform, p) : p \in RawPaths(host.platform)}
    /\ fs \in [ReqKeys -> Kinds]
    /\ sdist_pc = "run"
    /\ checked = << >>
    /\ sdist_raised = NoError
    /\ packaged = FALSE

Next == run_cmake \/ StartConfigure \/ ConfigureExit \/ BuildExit

NextSdist == run_check \/ sdist_run

Spec == Init /\ [][Next]_vars

SpecArgs == InitArgs /\ [][Next]_vars

SpecSdist == InitSdist /\ [][NextSdist]_vars

(* ---------------------------------------------------------------- claims *)

Last(q) == q[Len(q)]

\* the step that exited last exited nonzero and its error left the command
StepFailed ==
    /\ pc = "Failed"
    /\ Len(exits) > 0
    /\ Last(exits).rc # 0

\* C1: a build step is spawned only right after the configure step of the
\* same extension exited with status zero; once a configure step has exited
\* nonzero the command has failed with an error and no process was spawned
\* after that configure step.
C1_BuildOnlyAfterConfigureOk ==
    /\ \A i \in 1..Len(calls) :
          calls[i].step = "build" =>
              /\ i > 1
              /\ calls[i - 1].step = "configure"
              /\ calls[i - 1].ext = calls[i].ext
              /\ exits[i - 1].rc = 0
    /\ \A i \in 1..Len(exits) :
          (calls[i].step = "configure" /\ exits[i].rc # 0) =>
              /\ pc = "Failed"
              /\ raised.type = "CalledProcessError"
              /\ Len(calls) = i
    /\ pc = "Building" => Last(calls).step = "build"

C1_Witness ==
    /\ StepFailed
    /\ Last(calls).step = "configure"
    /\ Len(calls) = Len(exits)

\* C2 (as claimed): when the configure or the build step exits nonzero, the
\* error raised carries the tool's combined output as its payload.
C2_ErrorCarriesOutput ==
    StepFailed => raised.output = << Last(exits).out >>

\* C2 (amended): when the configure or the build step exits nonzero, the
\* error raised is check_call's CalledProcessError with the exit status and
\* the command of the failed step and no captured output; the step ran with
\* stderr merged into stdout, and what it emitted is the last thing written
\* to the stream inherited from the caller.
C2_ErrorCarriesStatusOnly ==
    StepFailed =>
        /\ Len(calls) = Len(exits)
        /\ raised = CalledProcessError(Last(exits).rc, Last(calls), << >>)
        /\ Last(calls).stderr = "STDOUT"
        /\ Len(console) > 0
        /\ Last(console) = Last(exits).out

C2_Witness ==
    /\ StepFailed
    /\ Last(calls).step = "build"
    /\ Last(exits).out = "log-b"

\* the version probe cannot succeed: the tool is absent or `--version`
\* exits nonzero
ProbeMustFail == ~cmake.installed \/ cmake.versionExit # 0

\* C5 (as claimed): when the tool is absent or its version command exits
\* nonzero, run_cmake fails with the "CMake must be installed" RuntimeError
\* and no configure or build step is spawned.
C5_ProbeFailureIsToolNotFound ==
    (pc # "run" /\ ProbeMustFail) =>
        /\ pc = "Failed"
        /\ raised = ToolNotFound(self.nExt)
        /\ calls = << >>

\* order on (major, minor, patch) triples
TripleLess(v, w) ==
    \/ v[1] < w[1]
    \/ v[1] = w[1] /\ v[2] < w[2]
    \/ v[1] = w[1] /\ v[2] = w[2] /\ v[3] < w[3]

\* the tool runs and `--version` exits zero
ProbeRuns == cmake.installed /\ cmake.versionExit = 0

\* run_cmake went on to the extension loop
ProbeAccepted == pc # "run" /\ (pc = "Failed" => Len(calls) > 0)

\* C6: on Windows a probed version triple below 3.1.0 fails the command with
\* the "CMake >= 3.1.0 is required" error before any step is spawned, and a
\* triple at or above 3.1.0 is accepted; on other platforms every banner of
\* a tool that runs is accepted.
C6_MinimumVersionPolicy ==
    (pc # "run" /\ ProbeRuns) =>
        IF host.platform = "Windows"
        THEN (cmake.banner.match /\ Len(cmake.banner.version) = 3) =>
                 IF TripleLess(cmake.banner.version, <<3, 1, 0>>)
                 THEN /\ pc = "Failed"
                      /\ raised = UnsupportedToolVersion
                      /\ calls = << >>
                 ELSE ProbeAccepted
        ELSE ProbeAccepted

C6_Witness ==
    /\ host.platform = "Windows"
    /\ ProbeRuns
    /\ cmake.banner.version = <<3, 1, 0>>
    /\ pc = "Done"

\* the version probe succeeds on these inputs: the tool runs and, on
\* Windows, reports a version triple at or above 3.1.0
ProbeInputsOk ==
    /\ ProbeRuns
    /\ host.platform = "Windows" =>
          /\ cmake.banner.match
          /\ Len(cmake.banner.version) = 3
          /\ ~TripleLess(cmake.banner.version, <<3, 1, 0>>)

\* C9: when the probe succeeds and every step exits zero the command ends
\* without an error; and whenever it ends without an error, each extension
\* had exactly one configure step then one build step, in that order, every
\* step exited zero, the build-temporary directory exists, and it was
\* created at most once.
C9_SuccessPath ==
    /\ (/\ pc \in {"Done", "Failed"}
        /\ ProbeInputsOk
        /\ \A i \in 1..Len(exits) : exits[i].rc = 0) => pc = "Done"
    /\ pc = "Done" =>
          /\ raised = NoError
          /\ build_temp
          /\ made <= 1
          /\ Len(calls) = 2 * self.nExt
          /\ Len(exits) = Len(calls)
          /\ \A i \in 1..Len(exits) : exits[i].rc = 0
          /\ \A e \in 1..self.nExt :
                /\ calls[2 * e - 1].step = "configure"
                /\ calls[2 * e - 1].ext = e
                /\ calls[2 * e].step = "build"
                /\ calls[2 * e].ext = e

C9_Witness ==
    /\ pc = "Done"
    /\ made = 1
    /\ self.nExt = 2

\* the five prerequisites in the order run_check declares them, each with
\* its directory under `here` and the command that produces it
Requirements ==
    << [key |-> "dist/CMakeLists.txt", base |-> <<"dist">>,
        file |-> <<"CMakeLists.txt">>, command |-> "yarn build_python"],
       [key |-> "dist/cmake", base |-> <<"dist">>,
        file |-> <<"cmake">>, command |-> "yarn build_python"],
       [key |-> "dist/src", base |-> <<"dist">>,
        file |-> <<"src">>, command |-> "yarn build_python"],
       [key |-> "perspective/labextension/package.json",
        base |-> <<"perspective">>,
        file |-> <<"labextension", FS, "package.json">>,
        command |-> "yarn build_js"],
       [key |-> "perspective/nbextension/index.js",
        base |-> <<"perspective">>,
        file |-> <<"nbextension", FS, "index.js">>,
        command |-> "yarn build_js"] >>

Missing == {i \in 1..Len(Requirements) : fs[Requirements[i].key] = "absent"}

FirstMissing == CHOOSE i \in Missing : \A j \in Missing : i <= j

\* the absolute path of a requirement: here, its directory and its file,
\* joined with the platform's separator only
RequirementPath(i) ==
    LET sep == IF host.platform = "Windows" THEN BS ELSE FS
        parts == here \o <<sep>> \o Requirements[i].base \o <<sep>>
                      \o Requirements[i].file
    IN  [k \in 1..Len(parts) |->
            IF host.platform = "Windows" /\ parts[k] = FS THEN BS ELSE parts[k]]

\* the remedy line of the error for a command
RemedyLine(command) ==
    IF command = "yarn build_python"
    THEN "\nMust run yarn build_python before building sdist so cmake files are installed"
    ELSE "\nMust run yarn build_js before building sdist so extension js files are installed"

\* C3: packaging is started only after run_check has passed: with a required
\* path missing the command fails with an error and packaging is never
\* started; with all five present (as file or directory) run_check raises
\* nothing and packaging goes ahead.
C3_PackagingOnlyAfterCheck ==
    /\ packaged => (Missing = {} /\ sdist_pc = "Done")
    /\ sdist_pc \notin {"idle", "run"} =>
          IF Missing # {}
          THEN /\ sdist_pc = "Failed"
               /\ sdist_raised.type = "Exception"
               /\ ~packaged
          ELSE /\ sdist_pc \in {"checked", "Done"}
               /\ sdist_raised = NoError
               /\ sdist_pc = "Done" => packaged

C3_Witness ==
    /\ sdist_pc = "Failed"
    /\ Missing = {3}
    /\ fs["perspective/nbextension/index.js"] = "file"
    /\ ~packaged

\* C4: run_check tests the requirements in declared order and stops at the
\* first missing one: the error names exactly that path and the command of
\* its phase, and the paths tested are those up to and including it.
C4_FirstMissingWins ==
    (sdist_pc \notin {"idle", "run"} /\ Missing # {}) =>
        /\ sdist_raised =
              [type |-> "Exception",
               msg |-> <<"Path is missing! ">> \o RequirementPath(FirstMissing)
                          \o <<RemedyLine(Requirements[FirstMissing].command)>>]
        /\ checked = [i \in 1..FirstMissing |-> RequirementPath(i)]

C4_Witness ==
    /\ sdist_pc = "Failed"
    /\ Missing = {2, 4}
    /\ Len(checked) = 2

\* the build steps spawned so far
BuildCalls == {i \in 1..Len(calls) : calls[i].step = "build"}

\* the configure steps spawned so far
ConfigureCalls == {i \in 1..Len(calls) : calls[i].step = "configure"}

\* the parallelism flag of a build step: the argument after "--"
JobsOf(call) ==
    LET i == CHOOSE k \in 1..Len(call.args) : call.args[k] = <<"--">>
    IN  call.args[i + 1]

DockerSet == "DOCKER" \in DOMAIN environ /\ environ["DOCKER"] # << >>

\* C7 (as claimed): with DOCKER non-empty the degree handed to the build
\* step is 2 on every platform, otherwise it is the CPU count.
C7_DockerCapsJobsEverywhere ==
    \A i \in BuildCalls :
        JobsOf(calls[i])[2] = IF DockerSet THEN "2" ELSE ToString(host.cpu)

\* C7 (amended): off Windows the degree is 2 when DOCKER is non-empty and
\* the CPU count otherwise (flag -jN); on Windows it is the CPU count
\* whatever DOCKER is (flag /m:N).
C7_DockerCapsJobsOffWindows ==
    \A i \in BuildCalls :
        JobsOf(calls[i]) =
            IF host.platform = "Windows"
            THEN <<"/m:", ToString(host.cpu)>>
            ELSE IF DockerSet THEN <<"-j", "2">>
                 ELSE <<"-j", ToString(host.cpu)>>

C7_Witness ==
    /\ BuildCalls # {}
    /\ host.platform = "Linux"
    /\ DockerSet
    /\ host.cpu = 3

\* C8 (as claimed): no parameter of the configure step contains a backslash.
C8_NoBackslashAnywhere ==
    \A i \in ConfigureCalls :
        \A k \in 1..Len(calls[i].args) : ~HasBackslash(calls[i].args[k])

\* C8 (amended): the only parameters of the configure step that can contain
\* a backslash are the source directory (the first, positional one) and the
\* generator name after -G; every -D parameter is free of backslashes.
C8_NoBackslashInDefinitions ==
    \A i \in ConfigureCalls :
        \A k \in 1..Len(calls[i].args) :
            HasBackslash(calls[i].args[k]) =>
                \/ k = 1
                \/ k > 1 /\ calls[i].args[k - 1] = <<"-G">>

C8_Witness ==
    /\ ConfigureCalls # {}
    /\ host.platform = "Windows"
    /\ HasBackslash(host.executable)
    /\ HasBackslash(host.prefix)
    /\ HasBackslash(self.extpath)

\* the generator of a configure step: the argument after -G
GeneratorOf(call) ==
    LET i == CHOOSE k \in 1..Len(call.args) : call.args[k] = <<"-G">>
    IN  call.args[i + 1]

\* the configure step ends with the architecture flag
HasArchFlag(call) ==
    /\ Len(call.args) >= 2
    /\ call.args[Len(call.args) - 1] = <<"-A">>
    /\ call.args[Len(call.args)] = <<"x64">>

\* the generator the table gives for a toolset identifier
TableGenerator(v) ==
    IF v.kind = "str" /\ v.text = "12" THEN <<"Visual Studio 12 2013">>
    ELSE IF v.kind = "str" /\ v.text = "14" THEN <<"Visual Studio 14 2015">>
    ELSE <<"Visual Studio 15 2017">>

\* generator and architecture flag of every configure step on Windows
GeneratorSelection ==
    \A i \in ConfigureCalls :
        host.platform = "Windows" =>
            /\ GeneratorOf(calls[i]) =
                  IF "PSP_GENERATOR" \in DOMAIN environ
                  THEN environ["PSP_GENERATOR"]
                  ELSE TableGenerator(host.buildVersion)
            /\ HasArchFlag(calls[i]) <=> host.bits > 32

\* C10 (as claimed): table lookup with default, override by PSP_GENERATOR,
\* -A x64 exactly on hosts wider than 32 bits, and no toolset detection
\* when the override is set.
C10_OverrideBypassesDetection ==
    /\ GeneratorSelection
    /\ "PSP_GENERATOR" \in DOMAIN environ => detections = 0

\* C10 (amended): table lookup with default, override by PSP_GENERATOR,
\* -A x64 exactly on hosts wider than 32 bits; the toolset is detected once
\* per configure step on Windows whether or not the override is set, and
\* with the override set its result is not used.
C10_OverrideReplacesDetection ==
    /\ GeneratorSelection
    /\ detections = IF host.platform = "Windows"
                    THEN Cardinality(ConfigureCalls) ELSE 0

C10_Witness ==
    /\ ConfigureCalls # {}
    /\ host.platform = "Windows"
    /\ "PSP_GENERATOR" \in DOMAIN environ
    /\ host.buildVersion.text = "12"
    /\ GeneratorOf(calls[1]) = <<"Ninja">>
    /\ detections = 1

====
